---- MODULE Spec2Model ----
(***************************************************************************)
(* VRSecretary: the Base64 WAV decoder of the sample game                  *)
(* (Source/VRSecretaryGame/Private/Audio/VRSAudioDecoder.cpp).             *)
(*                                                                         *)
(* A TArray<uint8> is a sequence of bytes 0..255; the C++ index i is the   *)
(* TLA+ index i + 1.  int32 values are kept as integers in                 *)
(* MinInt32..MaxInt32 and every addition of the code goes through AddInt32,*)
(* which wraps modulo 2^32.  An FString of Base64 text is a sequence of    *)
(* character codes: 0..63 the Base64 alphabet, PadChar '=', BadChar any    *)
(* character outside the alphabet.                                         *)
(***************************************************************************)
EXTENDS Integers, Sequences, FiniteSets, TLC

(***************************************************************************)
(* Bounds of the model.                                                    *)
(***************************************************************************)
\* longest PCM payload of a generated WAV, in bytes
MaxPcm == 4
\* most chunks inserted between the fmt chunk and the data chunk
MaxExtraChunks == 2
\* most statements of one call that read outside the array and go on; the
\* next such read stops the process
MaxOobSteps == 2

(***************************************************************************)
(* Program constants.                                                      *)
(***************************************************************************)
MinWavSize == 44
ScanStart == 36
MinFmtChunkSize == 16
PcmFormatTag == 1
MinSampleRate == 8000
MaxSampleRate == 48000
MinChannels == 1
MaxChannels == 2
RequiredBits == 16
BytesPerSample == 2

MaxInt32 == 2147483647
MinInt32 == (-2147483647) - 1

\* chunk identifiers, as ASCII codes
RiffMagic == <<82, 73, 70, 70>>
WaveMagic == <<87, 65, 86, 69>>
FmtMagic == <<102, 109, 116, 32>>
DataMagic == <<100, 97, 116, 97>>

(***************************************************************************)
(* 32-bit and 16-bit arithmetic.                                           *)
(***************************************************************************)
\* a + b in int32, wrapping modulo 2^32 (the sum is never formed unwrapped)
AddInt32(a, b) ==
    IF a > 0 /\ b > 0 /\ a > MaxInt32 - b THEN (a + MinInt32) + (b + MinInt32)
    ELSE IF a < 0 /\ b < 0 /\ a < MinInt32 - b THEN (a - MinInt32) + (b - MinInt32)
    ELSE a + b

\* -a in int32
NegInt32(a) == IF a = MinInt32 THEN MinInt32 ELSE -a

\* a - b in int32, wrapping
SubInt32(a, b) == IF b = MinInt32 THEN AddInt32(AddInt32(a, MaxInt32), 1) ELSE AddInt32(a, -b)

\* a * n in int32, wrapping, for the small n the model multiplies by
RECURSIVE MulInt32(_, _)
MulInt32(a, n) ==
    IF n = 0 THEN 0
    ELSE IF n < 0 THEN NegInt32(MulInt32(a, -n))
    ELSE AddInt32(a, MulInt32(a, n - 1))

\* whether a + b leaves the int32 range (signed overflow)
AddOverflows(a, b) ==
    \/ a > 0 /\ b > 0 /\ a > MaxInt32 - b
    \/ a < 0 /\ b < 0 /\ a < MinInt32 - b

\* FromLE32 with the byte order reversed
FromLE32Swapped(b0, b1, b2, b3) ==
    b3 + b2 * 256 + b1 * 65536 + (IF b0 >= 128 THEN b0 - 256 ELSE b0) * 16777216

\* the int32 whose bytes, least significant first, are b0 b1 b2 b3
FromLE32(b0, b1, b2, b3) ==
    b0 + b1 * 256 + b2 * 65536 + (IF b3 >= 128 THEN b3 - 256 ELSE b3) * 16777216

\* the int16 whose bytes, least significant first, are b0 b1
FromLE16(b0, b1) ==
    b0 + (IF b1 >= 128 THEN b1 - 256 ELSE b1) * 256

\* the four bytes of the int32 v, least significant first
ToLE32(v) ==
    LET w == IF v < 0 THEN v - MinInt32 ELSE v
        hi == (w \div 16777216) + (IF v < 0 THEN 128 ELSE 0)
    IN  <<w % 256, (w \div 256) % 256, (w \div 65536) % 256, hi>>

\* the two bytes of v in 0..65535, least significant first
ToLE16(v) == <<v % 256, (v \div 256) % 256>>

(***************************************************************************)
(* Base64 text.  Characters are codes: 0..63 the alphabet, PadChar '=',    *)
(* BadChar a character outside the alphabet.                               *)
(***************************************************************************)
PadChar == 64
BadChar == 65

\* standard padded Base64 of the byte sequence b (what the backend sends)
Base64Encode(b) ==
    LET n == Len(b)
        B(i) == IF i <= n THEN b[i] ELSE 0
        Char(k) ==
            LET q == (k - 1) \div 4
                p == (k - 1) % 4
                b0 == B(3 * q + 1)
                b1 == B(3 * q + 2)
                b2 == B(3 * q + 3)
            IN  CASE p = 0 -> b0 \div 4
                  [] p = 1 -> (b0 % 4) * 16 + (b1 \div 16)
                  [] p = 2 -> IF 3 * q + 2 > n THEN PadChar
                              ELSE (b1 % 16) * 4 + (b2 \div 64)
                  [] p = 3 -> IF 3 * q + 3 > n THEN PadChar ELSE b2 % 64
    IN  [k \in 1..(4 * ((n + 2) \div 3)) |-> Char(k)]

\* the length of s without its trailing '=' characters
RECURSIVE StrippedLen(_, _)
StrippedLen(s, n) ==
    IF n > 0 /\ s[n] = PadChar THEN StrippedLen(s, n - 1) ELSE n

\* FBase64::Decode accepts s: after the trailing '=' are dropped the length
\* is not 1 modulo 4 and every character left is of the alphabet
Base64Valid(s) ==
    LET n == StrippedLen(s, Len(s))
    IN  /\ n % 4 # 1
        /\ \A k \in 1..n : s[k] < PadChar

\* the bytes FBase64::Decode produces for an accepted s
Base64Bytes(s) ==
    LET n == StrippedLen(s, Len(s))
        C(i) == IF i <= n THEN s[i] ELSE 0
        outLen == (n \div 4) * 3 + (CASE n % 4 = 2 -> 1 [] n % 4 = 3 -> 2 [] OTHER -> 0)
        Byte(j) ==
            LET q == (j - 1) \div 3
                r == (j - 1) % 3
                c0 == C(4 * q + 1)
                c1 == C(4 * q + 2)
                c2 == C(4 * q + 3)
                c3 == C(4 * q + 4)
            IN  CASE r = 0 -> c0 * 4 + (c1 \div 16)
                  [] r = 1 -> (c1 % 16) * 16 + (c2 \div 4)
                  [] r = 2 -> (c2 % 4) * 64 + c3
    IN  [j \in 1..outLen |-> Byte(j)]

(***************************************************************************)
(* WAV files, laid out as in the table of ParseWavHeader:                  *)
(*   0 "RIFF"  4 file size - 8  8 "WAVE"  12 "fmt "  16 fmt chunk size     *)
(*   20 format tag  22 channels  24 sample rate  28 byte rate              *)
(*   32 block align  34 bits per sample  36 chunks ... "data" size bytes   *)
(***************************************************************************)
\* a chunk: identifier, declared size (as the int32 the decoder reads) and
\* the payload bytes actually present
Chunk(id, size, payload) == id \o ToLE32(size) \o payload

\* the 36 bytes before the first chunk after fmt; counts too large for the
\* byte-rate field to matter are written as 0 there (the decoder never
\* reads offsets 28..33)
FixedHeader(riff, riffSize, wave, fmt, fmtSize, tag, channels, rate, bits) ==
    LET small == rate >= 0 /\ rate <= 100000 /\ channels <= 4
        byteRate == IF small THEN rate * channels * BytesPerSample ELSE 0
        blockAlign == IF small THEN channels * BytesPerSample ELSE 0
    IN  riff \o ToLE32(riffSize) \o wave \o fmt \o ToLE32(fmtSize)
             \o ToLE16(tag) \o ToLE16(channels) \o ToLE32(rate)
             \o ToLE32(byteRate) \o ToLE16(blockAlign) \o ToLE16(bits)

\* the concatenation of a sequence of byte sequences
RECURSIVE Flatten(_)
Flatten(ss) == IF ss = <<>> THEN <<>> ELSE Head(ss) \o Flatten(Tail(ss))

\* a 16-bit PCM WAV: fixed header, the extra chunks, then the data chunk
\* declaring `declared` bytes and holding pcm
WavFile(channels, rate, bits, extras, declared, pcm) ==
    LET body == Flatten(extras) \o Chunk(DataMagic, declared, pcm)
    IN  FixedHeader(RiffMagic, 28 + Len(body), WaveMagic, FmtMagic,
                    MinFmtChunkSize, PcmFormatTag, channels, rate, bits) \o body

\* the canonical 44-byte-header WAV of pcm
CanonicalWav(channels, rate, pcm) ==
    WavFile(channels, rate, RequiredBits, <<>>, Len(pcm), pcm)

(***************************************************************************)
(* Reads of a TArray<uint8>.  An index outside [0, Num()) is not a byte of *)
(* the array: TArray::operator[] either stops the process on its range     *)
(* check or, in a build without checks, reads whatever memory lies there.  *)
(* That memory is one of GarbageWords, repeated every 8 bytes.             *)
(***************************************************************************)
ZeroWord == <<0, 0, 0, 0, 0, 0, 0, 0>>
GarbageWords ==
    { ZeroWord,
      <<255, 255, 255, 255, 255, 255, 255, 255>>,
      DataMagic \o <<2, 0, 0, 0>>,
      <<2, 0, 0, 0>> \o DataMagic }

InBuf(Data, i) == 0 <= i /\ i < Len(Data)

AllIn(Data, idxs) == \A i \in idxs : InBuf(Data, i)

\* the value an access Data[i] yields; g is the memory outside the array
ByteAt(Data, i, g) == IF InBuf(Data, i) THEN Data[i + 1] ELSE g[(i % 8) + 1]

\* the indices  Data[at] != m0 || Data[at+1] != m1 || ...  accesses: it
\* stops at the first byte of the array that differs from the magic
MagicReads(Data, at, magic) ==
    LET differs(j) == InBuf(Data, AddInt32(at, j)) /\ Data[AddInt32(at, j) + 1] # magic[j + 1]
        stop == IF \E j \in 0..3 : differs(j)
                THEN CHOOSE j \in 0..3 : differs(j) /\ \A k \in 0..(j - 1) : ~differs(k)
                ELSE 3
    IN  { AddInt32(at, j) : j \in 0..stop }

\* whether the four bytes at `at` are the magic
MagicMatches(Data, at, magic, g) ==
    \A j \in 0..3 : ByteAt(Data, AddInt32(at, j), g) = magic[j + 1]

\* ReadInt32's guard: if (Offset + 4 > Data.Num()) return 0;
ReadInt32Guarded(Data, at) == AddInt32(at, 4) > Len(Data)

ReadInt32Reads(Data, at) ==
    IF ReadInt32Guarded(Data, at) THEN {} ELSE { AddInt32(at, j) : j \in 0..3 }

ReadInt32(Data, at, g) ==
    IF ReadInt32Guarded(Data, at) THEN 0
    ELSE FromLE32(ByteAt(Data, at, g), ByteAt(Data, AddInt32(at, 1), g),
                  ByteAt(Data, AddInt32(at, 2), g), ByteAt(Data, AddInt32(at, 3), g))

\* ReadInt16's guard: if (Offset + 2 > Data.Num()) return 0;
ReadInt16Guarded(Data, at) == AddInt32(at, 2) > Len(Data)

ReadInt16Reads(Data, at) ==
    IF ReadInt16Guarded(Data, at) THEN {} ELSE { at, AddInt32(at, 1) }

ReadInt16(Data, at, g) ==
    IF ReadInt16Guarded(Data, at) THEN 0
    ELSE FromLE16(ByteAt(Data, at, g), ByteAt(Data, AddInt32(at, 1), g))

(***************************************************************************)
(* The inputs the calls are made with.                                     *)
(***************************************************************************)
PcmRamp(n) == [i \in 1..n |-> (17 * i) % 256]
PcmHigh(n) == [i \in 1..n |-> 256 - i]
PcmSeqs == { PcmRamp(n) : n \in 0..MaxPcm } \cup { PcmHigh(n) : n \in 1..MaxPcm }
LongPcm == PcmRamp(MaxPcm)

GoodRates == {8000, 16000, 44100, 48000}
SampleRates == GoodRates \cup {0, 7999, 48001, 96000, MinInt32 + 16000}
GoodChannels == {1, 2}
ChannelCounts == GoodChannels \cup {0, 3, 258, 32770, 65535}
BitDepths == {16, 8, 24, 32, 272}
FmtSizes == {16, 18, 40, 15, 0, -1, MinInt32 + 16}
FormatTags == {1, 3, 0, 257, 65534}
RiffSizes == {0, 36, -1}

\* chunk identifiers other than "data": "LIST", "JUNK", "fact", "datA", "Data"
ListId == <<76, 73, 83, 84>>
JunkId == <<74, 85, 78, 75>>
FactId == <<102, 97, 99, 116>>
NotDataIds == { <<100, 97, 116, 65>>, <<68, 97, 116, 97>> }

\* chunks whose declared size is the size of their payload; the payload of
\* the JUNK chunk holds the bytes of a data chunk header
ListChunk == Chunk(ListId, 4, <<73, 78, 70, 79>>)
DecoyChunk == Chunk(JunkId, 9, DataMagic \o <<2, 0, 0, 0, 9>>)
EmptyChunk == Chunk(FactId, 0, <<>>)
SizedChunks == { ListChunk, DecoyChunk, EmptyChunk }

\* chunks whose declared size is not the size of their payload: larger
\* than the file, negative as an int32 (top bit set) so that the scan
\* steps back to offset 4, to offset -4 or not at all, or (placed behind
\* DecoyChunk at offset 36) to offset 44 inside the payload of DecoyChunk,
\* and values for which 8 + size or the new scan position leaves the int32
\* range
BackToRiffSize == Chunk(ListId, -40, <<>>)
BeforeArray == Chunk(ListId, -48, <<>>)
BackIntoPayload == Chunk(ListId, -17, <<>>)
BadSizeChunks ==
    { Chunk(ListId, 100, <<73, 78, 70, 79>>),
      BackToRiffSize,
      BeforeArray,
      BackIntoPayload,
      Chunk(ListId, -8, <<>>),
      Chunk(ListId, MaxInt32 - 7, <<>>),
      Chunk(ListId, MaxInt32 - 48, <<>>) }

\* the sequences of at most n chunks of S
RECURSIVE ChunkSeqs(_, _)
ChunkSeqs(S, n) ==
    IF n = 0 THEN { <<>> }
    ELSE LET shorter == ChunkSeqs(S, n - 1)
         IN  shorter \cup { Append(ss, ch) : ss \in shorter, ch \in S }

SizedSeqs == ChunkSeqs(SizedChunks, MaxExtraChunks)

\* sized chunks, then at most one chunk of a wrong size
ExtraSeqs ==
    SizedSeqs \cup { Append(ss, bad) : ss \in ChunkSeqs(SizedChunks, MaxExtraChunks - 1),
                                       bad \in BadSizeChunks }

\* a magic, and the same with its first or its last byte changed
Variants(magic) ==
    { magic, [magic EXCEPT ![1] = 0], [magic EXCEPT ![4] = 0] }

\* files that differ in the validated parameters
ParamFiles ==
    { WavFile(ch, rate, bits, <<>>, Len(LongPcm), LongPcm) :
        ch \in ChannelCounts, rate \in SampleRates, bits \in BitDepths }

\* canonical files of every payload
PcmFiles ==
    { CanonicalWav(ch, rate, pcm) : ch \in GoodChannels, rate \in GoodRates, pcm \in PcmSeqs }

\* files with chunks between fmt and the last chunk, which is a data chunk
\* or has another identifier
ExtraFiles ==
    { FixedHeader(RiffMagic, 36, WaveMagic, FmtMagic, MinFmtChunkSize, PcmFormatTag, 1, 16000, 16)
        \o Flatten(extras) \o Chunk(id, Len(LongPcm), LongPcm) :
        extras \in ExtraSeqs,
        id \in {DataMagic} \cup NotDataIds }

\* well-formed files with chunks between fmt and data
SkipFiles ==
    { WavFile(p[1], p[2], RequiredBits, extras, Len(pcm), pcm) :
        p \in { <<1, 16000>>, <<2, 44100>> },
        extras \in SizedSeqs, pcm \in PcmSeqs }

\* files whose data chunk declares another size than the bytes that follow
DeclaredSizes(n) == {n + 1, n + 4, 0, -1, MinInt32, MaxInt32} \cup (IF n > 0 THEN {n - 1} ELSE {})
DeclaredFiles ==
    { WavFile(1, 16000, RequiredBits, extras, d, pcm) :
        extras \in { <<>>, <<ListChunk>> },
        d \in UNION { DeclaredSizes(n) : n \in 0..MaxPcm }, pcm \in PcmSeqs }

\* files that differ in the magics and in the fields next to them
MagicFiles ==
    { FixedHeader(riff, riffSize, wave, fmt, fmtSize, tag, 1, 16000, 16)
        \o Chunk(DataMagic, Len(LongPcm), LongPcm) :
        riff \in Variants(RiffMagic), wave \in Variants(WaveMagic), fmt \in Variants(FmtMagic),
        riffSize \in RiffSizes, fmtSize \in {16, 0}, tag \in {1, 3} }

\* files that differ in the fmt chunk size and the format tag
FmtFiles ==
    { FixedHeader(RiffMagic, riffSize, WaveMagic, FmtMagic, fmtSize, tag, 1, rate, 16)
        \o Chunk(id, Len(LongPcm), LongPcm) :
        riffSize \in {36, -1}, fmtSize \in FmtSizes, tag \in FormatTags,
        rate \in {16000, 96000}, id \in {DataMagic} \cup NotDataIds }

\* the beginnings, shorter than a header, of a canonical file
ShortFiles ==
    { SubSeq(CanonicalWav(1, 16000, LongPcm), 1, n) : n \in 1..(MinWavSize - 1) }

WavInputs ==
    ParamFiles \cup PcmFiles \cup ExtraFiles \cup SkipFiles \cup DeclaredFiles
        \cup MagicFiles \cup FmtFiles \cup ShortFiles

\* text FBase64::Decode refuses, or that carries no '=' padding
OddStrings ==
    LET good == Base64Encode(CanonicalWav(1, 16000, PcmRamp(1)))
    IN  { <<BadChar>>, <<1>>, <<PadChar>>, <<PadChar, PadChar, PadChar, PadChar>>,
          [good EXCEPT ![5] = BadChar], [good EXCEPT ![5] = PadChar],
          SubSeq(good, 1, Len(good) - 2), SubSeq(good, 1, Len(good) - 3),
          Append(good, 7) }

Base64Inputs == { Base64Encode(b) : b \in WavInputs } \cup OddStrings \cup { <<>> }

(***************************************************************************)
(* The state: for each call of DecodeBase64WavToSoundWave its argument,    *)
(* its locals, the position it has reached and what it returned.           *)
(***************************************************************************)
Calls == {1, 2}

\* a USoundWave: the fields the decoder sets.  Duration is kept as the
\* two operands of its division, (float)DurationBytes / (float)DurationRate
NoSoundWave ==
    [made |-> FALSE, SampleRate |-> 0, NumChannels |-> 0, DurationBytes |-> 0,
     DurationRate |-> 0, RawPCMDataSize |-> 0, allocated |-> FALSE, RawPCMData |-> <<>>]

VARIABLES
    pc,             \* the statement each call is at; "idle": never called,
                    \*   "waiting": called once the call before it returned
    Base64String,   \* the argument
    WavData,        \* TArray<uint8> WavData
    SampleRate,     \* int32 locals of DecodeBase64WavToSoundWave, which
    NumChannels,    \*   ParseWavHeader writes through its Out references
    BitsPerSample,
    DataOffset,
    DataSize,
    Offset,         \* int32 Offset of ParseWavHeader
    SoundWave,      \* the USoundWave the call created, or NoSoundWave
    ret,            \* "none" while running, "nullptr", "SoundWave", or
                    \*   "crash" when the process stopped inside the call
    error,          \* which UE_LOG(..., Error, ...) the call wrote
    oob,            \* how many statements of the call accessed an index
                    \*   outside [0, Num())
    checks          \* the checks the call evaluated, in order

\* The component that receives the backend's reply, UVRSecretaryComponent.
\* The repository holds three copies of the plugin.
VARIABLES
    Copy,           \* the copy of the plugin that is built, "none" when
                    \*   the decoder is called on its own
    Completion,     \* the HTTP completion the request ends with, and
                    \*   whether the handler bound to it has run
    Broadcasts      \* the delegate broadcasts of the component, in order

component == <<Copy, Completion, Broadcasts>>

\* A call of ReadInt32 or ReadInt16 made on its own, with any buffer and
\* any offset.
VARIABLE
    reader          \* the function called, its arguments, the indices of
                    \*   Data it accessed and what it returned

\* The fields of the component that SendUserText and BeginPlay use, and the
\* requests the component has sent.
VARIABLES
    Settings,               \* const UVRSecretarySettings* Settings: whether it
                            \*   is non-null, and Settings->BackendMode
    BackendModeOverride,    \* engine-plugins/unreal/VRSecretary
    bOverrideBackendMode,   \* samples/VRSecretaryGame/Plugins/VRSecretary
    BackendMode,            \* the sample copy and the legacy copy
    LlamaComponent,         \* whether the pointer is non-null, after the
                            \*   lookup on the owner (sample copy)
    GatewayUrl,             \* the legacy copy's own GatewayUrl
    SessionId,              \* FString SessionId
    Guids,                  \* how many times FGuid::NewGuid() was called
    Requests                \* the requests handed to a transport, in order

actor == <<Settings, BackendModeOverride, bOverrideBackendMode, BackendMode,
           LlamaComponent, GatewayUrl, SessionId, Guids, Requests>>

\* what the steps of the decoder leave alone
outside == <<Copy, Completion, Broadcasts, reader, actor>>

vars == <<pc, Base64String, WavData, SampleRate, NumChannels, BitsPerSample,
          DataOffset, DataSize, Offset, SoundWave, ret, error, oob, checks,
          Copy, Completion, Broadcasts, reader, Settings, BackendModeOverride,
          bOverrideBackendMode, BackendMode, LlamaComponent, GatewayUrl, SessionId,
          Guids, Requests>>

locals == <<SampleRate, NumChannels, BitsPerSample, DataOffset, DataSize, Offset>>

InitLocals ==
    /\ WavData = [c \in Calls |-> <<>>]
    /\ SampleRate = [c \in Calls |-> 0]
    /\ NumChannels = [c \in Calls |-> 0]
    /\ BitsPerSample = [c \in Calls |-> 0]
    /\ DataOffset = [c \in Calls |-> 0]
    /\ DataSize = [c \in Calls |-> 0]
    /\ Offset = [c \in Calls |-> 0]
    /\ SoundWave = [c \in Calls |-> NoSoundWave]
    /\ ret = [c \in Calls |-> "none"]
    /\ error = [c \in Calls |-> "none"]
    /\ oob = [c \in Calls |-> 0]
    /\ checks = [c \in Calls |-> <<>>]

\* neither function is called on its own
NoRead == [fn |-> "none", Data |-> <<>>, Offset |-> 0, state |-> "returned",
           accessed |-> {}, result |-> 0]

\* no HTTP request is under way
NoCompletion == [delivered |-> TRUE]

\* the component as its constructor leaves it, with the project's default
\* settings; no request was sent
NoActor ==
    /\ Settings = [valid |-> TRUE, BackendMode |-> "GatewayOllama"]
    /\ BackendModeOverride = "GatewayOllama"
    /\ bOverrideBackendMode = FALSE
    /\ BackendMode = "GatewayOllama"
    /\ LlamaComponent = FALSE
    /\ GatewayUrl = "http://localhost:8000"
    /\ SessionId = ""
    /\ Guids = 0
    /\ Requests = <<>>

NoComponent ==
    /\ Copy = "none"
    /\ Completion = NoCompletion
    /\ Broadcasts = <<>>
    /\ NoActor

\* one call, with any of the inputs; call 2 is never made
Init ==
    /\ NoComponent
    /\ \E s \in Base64Inputs : Base64String = [c \in Calls |-> IF c = 1 THEN s ELSE <<>>]
    /\ pc = [c \in Calls |-> IF c = 1 THEN "start" ELSE "idle"]
    /\ InitLocals
    /\ reader = NoRead

(***************************************************************************)
(* Steps shared by the statements.                                         *)
(***************************************************************************)
Goto(c, label) == pc' = [pc EXCEPT ![c] = label]

Checked(c, name) == checks' = [checks EXCEPT ![c] = Append(@, name)]

\* UE_LOG(..., Error, ...); return nullptr;   (ParseWavHeader's  return
\* false  is followed by the caller's  return nullptr)
Fail(c, kind) ==
    /\ Goto(c, "done")
    /\ error' = [error EXCEPT ![c] = kind]
    /\ ret' = [ret EXCEPT ![c] = "nullptr"]

\* the memory an access to idxs may see and go on: nothing outside the
\* array is read when all of idxs are inside it
Garbage(c, idxs) ==
    IF AllIn(WavData[c], idxs) THEN {ZeroWord}
    ELSE IF oob[c] < MaxOobSteps THEN GarbageWords
    ELSE {}

Touch(c, idxs) ==
    oob' = [oob EXCEPT ![c] = IF AllIn(WavData[c], idxs) THEN @ ELSE @ + 1]

(***************************************************************************)
(* DecodeBase64WavToSoundWave, lines 13-46.                                *)
(***************************************************************************)
\* IsEmpty that no string satisfies: the check left to the Base64 decoder
IsEmptyNever(s) == Len(s) < 0

\* FString::IsEmpty
IsEmpty(s) == Len(s) = 0

\* if (Base64String.IsEmpty())
CheckEmpty(c) ==
    /\ pc[c] = "start"
    /\ Checked(c, "empty")
    /\ IF IsEmpty(Base64String[c]) THEN Fail(c, "EmptyInput")
       ELSE Goto(c, "decode") /\ UNCHANGED <<error, ret>>
    /\ UNCHANGED <<outside, Base64String, WavData, locals, SoundWave, oob>>

\* if (!FBase64::Decode(Base64String, WavData))
DecodeBase64(c) ==
    /\ pc[c] = "decode"
    /\ Checked(c, "base64")
    /\ IF Base64Valid(Base64String[c])
       THEN /\ WavData' = [WavData EXCEPT ![c] = Base64Bytes(Base64String[c])]
            /\ Goto(c, "size")
            /\ UNCHANGED <<error, ret>>
       ELSE /\ Fail(c, "Base64DecodeFailed")
            /\ UNCHANGED WavData
    /\ UNCHANGED <<outside, Base64String, locals, SoundWave, oob>>

\* TooSmall with the size of the header up to the data chunk's size field
TooSmallBy4(Data) == Len(Data) < 40

\* WavData.Num() < 44
TooSmall(Data) == Len(Data) < MinWavSize

\* if (WavData.Num() < 44) ... else ParseWavHeader(WavData, ...) is entered
CheckSize(c) ==
    /\ pc[c] = "size"
    /\ Checked(c, "size")
    /\ IF TooSmall(WavData[c]) THEN Fail(c, "TooSmall")
       ELSE Goto(c, "riff") /\ UNCHANGED <<error, ret>>
    /\ UNCHANGED <<outside, Base64String, WavData, locals, SoundWave, oob>>

(***************************************************************************)
(* ParseWavHeader, lines 145-185.                                          *)
(***************************************************************************)
\* one of the three magic checks: at label `here` the four bytes at `at`
\* are compared with `magic`
CheckMagic(c, here, name, at, magic, kind, next) ==
    /\ pc[c] = here
    /\ Checked(c, name)
    /\ LET idxs == MagicReads(WavData[c], at, magic)
       IN  /\ Touch(c, idxs)
           /\ \E g \in Garbage(c, idxs) :
                IF MagicMatches(WavData[c], at, magic, g)
                THEN Goto(c, next) /\ UNCHANGED <<error, ret>>
                ELSE Fail(c, kind)
    /\ UNCHANGED <<outside, Base64String, WavData, locals, SoundWave>>

CheckRiff(c) == CheckMagic(c, "riff", "riff", 0, RiffMagic, "BadRiffMagic", "wave")

CheckWave(c) == CheckMagic(c, "wave", "wave", 8, WaveMagic, "BadWaveMagic", "fmt")

CheckFmt(c) == CheckMagic(c, "fmt", "fmt", 12, FmtMagic, "BadFmtMagic", "fmtsize")

\* FmtChunkSize < 16
FmtChunkTooSmall(FmtChunkSize) == FmtChunkSize < MinFmtChunkSize

\* const int32 FmtChunkSize = ReadInt32(WavData, 16); if (FmtChunkSize < 16)
CheckFmtSize(c) ==
    /\ pc[c] = "fmtsize"
    /\ Checked(c, "fmtsize")
    /\ LET idxs == ReadInt32Reads(WavData[c], 16)
       IN  /\ Touch(c, idxs)
           /\ \E g \in Garbage(c, idxs) :
                IF FmtChunkTooSmall(ReadInt32(WavData[c], 16, g))
                THEN Fail(c, "FmtChunkTooSmall")
                ELSE Goto(c, "format") /\ UNCHANGED <<error, ret>>
    /\ UNCHANGED <<outside, Base64String, WavData, locals, SoundWave>>

\* NotPcm comparing the low byte of the tag only
NotPcmLowByte(AudioFormat) == (AudioFormat % 256) # PcmFormatTag

\* AudioFormat != 1
NotPcm(AudioFormat) == AudioFormat # PcmFormatTag

\* const int16 AudioFormat = ReadInt16(WavData, 20); if (AudioFormat != 1)
CheckFormat(c) ==
    /\ pc[c] = "format"
    /\ Checked(c, "format")
    /\ LET idxs == ReadInt16Reads(WavData[c], 20)
       IN  /\ Touch(c, idxs)
           /\ \E g \in Garbage(c, idxs) :
                IF NotPcm(ReadInt16(WavData[c], 20, g))
                THEN Fail(c, "UnsupportedFormat")
                ELSE Goto(c, "params") /\ UNCHANGED <<error, ret>>
    /\ UNCHANGED <<outside, Base64String, WavData, locals, SoundWave>>

\* OutNumChannels = ReadInt16(WavData, 22); OutSampleRate = ReadInt32(WavData, 24);
\* OutBitsPerSample = ReadInt16(WavData, 34); int32 Offset = 36;
ReadParams(c) ==
    /\ pc[c] = "params"
    /\ LET idxs == ReadInt16Reads(WavData[c], 22) \cup ReadInt32Reads(WavData[c], 24)
                     \cup ReadInt16Reads(WavData[c], 34)
       IN  /\ Touch(c, idxs)
           /\ \E g \in Garbage(c, idxs) :
                /\ NumChannels' = [NumChannels EXCEPT ![c] = ReadInt16(WavData[c], 22, g)]
                /\ SampleRate' = [SampleRate EXCEPT ![c] = ReadInt32(WavData[c], 24, g)]
                /\ BitsPerSample' = [BitsPerSample EXCEPT ![c] = ReadInt16(WavData[c], 34, g)]
    /\ Offset' = [Offset EXCEPT ![c] = ScanStart]
    /\ Goto(c, "scan")
    /\ Checked(c, "scan")
    /\ UNCHANGED <<outside, Base64String, WavData, DataOffset, DataSize, SoundWave, ret, error>>

(***************************************************************************)
(* ParseWavHeader, lines 187-215: the scan for the data chunk.             *)
(***************************************************************************)
\* the outcomes of  Offset + 8 <= WavData.Num().  When Offset + 8 leaves
\* the int32 range the comparison is decided either on the wrapped sum or
\* as if the sum had not overflowed
LoopContinues(Off, Num) ==
    IF AddOverflows(Off, 8) THEN BOOLEAN ELSE { Off + 8 <= Num }

\* WavData[Offset] == 'd' && ... && WavData[Offset + 3] == 'a'
IsDataChunk(Data, Off, g) == MagicMatches(Data, Off, DataMagic, g)

\* Offset + 8
DataStart(Off) == AddInt32(Off, 8)

\* ScanAdvance without the 8 bytes of the chunk header
ScanAdvanceNoHeader(Off, ChunkSize) == AddInt32(Off, ChunkSize)

\* Offset += 8 + ChunkSize
ScanAdvance(Off, ChunkSize) == AddInt32(Off, AddInt32(8, ChunkSize))

\* the indices one turn of the loop accesses
ScanReads(Data, Off) ==
    MagicReads(Data, Off, DataMagic) \cup ReadInt32Reads(Data, AddInt32(Off, 4))

\* one turn of the while loop: the chunk at Offset is the data chunk, or
\* it is skipped
ScanChunk(c) ==
    /\ pc[c] = "scan"
    /\ TRUE \in LoopContinues(Offset[c], Len(WavData[c]))
    /\ LET Data == WavData[c]
           Off == Offset[c]
           idxs == ScanReads(Data, Off)
       IN  /\ Touch(c, idxs)
           /\ \E g \in Garbage(c, idxs) :
                IF IsDataChunk(Data, Off, g)
                THEN /\ DataSize' = [DataSize EXCEPT ![c] = ReadInt32(Data, AddInt32(Off, 4), g)]
                     /\ DataOffset' = [DataOffset EXCEPT ![c] = DataStart(Off)]
                     /\ Goto(c, "rate")
                     /\ UNCHANGED Offset
                ELSE /\ Offset' = [Offset EXCEPT ![c] =
                                      ScanAdvance(Off, ReadInt32(Data, AddInt32(Off, 4), g))]
                     /\ UNCHANGED <<pc, DataSize, DataOffset>>
    /\ UNCHANGED <<outside, Base64String, WavData, SampleRate, NumChannels, BitsPerSample,
                   SoundWave, ret, error, checks>>

\* the loop ends without FoundData: if (!FoundData) return false;
ScanExhausted(c) ==
    /\ pc[c] = "scan"
    /\ FALSE \in LoopContinues(Offset[c], Len(WavData[c]))
    /\ Fail(c, "DataChunkNotFound")
    /\ UNCHANGED <<outside, Base64String, WavData, locals, SoundWave, oob, checks>>

(***************************************************************************)
(* DecodeBase64WavToSoundWave, lines 52-118.                               *)
(***************************************************************************)
\* RateUnsupported with the lower limit excluded
RateUnsupportedStrict(rate) == rate <= MinSampleRate \/ rate > MaxSampleRate

\* SampleRate < 8000 || SampleRate > 48000
RateUnsupported(rate) == rate < MinSampleRate \/ rate > MaxSampleRate

\* ChannelsUnsupported without the lower limit
ChannelsUnsupportedAbove(n) == n > MaxChannels

\* NumChannels < 1 || NumChannels > 2
ChannelsUnsupported(n) == n < MinChannels \/ n > MaxChannels

\* BitsUnsupported comparing the low byte of the field only
BitsUnsupportedLowByte(bits) == (bits % 256) # RequiredBits

\* BitsPerSample != 16
BitsUnsupported(bits) == bits # RequiredBits

\* one of the three parameter checks
CheckParam(c, here, name, bad, kind, next) ==
    /\ pc[c] = here
    /\ Checked(c, name)
    /\ IF bad THEN Fail(c, kind) ELSE Goto(c, next) /\ UNCHANGED <<error, ret>>
    /\ UNCHANGED <<outside, Base64String, WavData, locals, SoundWave, oob>>

CheckSampleRate(c) ==
    CheckParam(c, "rate", "rate", RateUnsupported(SampleRate[c]), "UnsupportedSampleRate", "channels")

CheckChannels(c) ==
    CheckParam(c, "channels", "channels", ChannelsUnsupported(NumChannels[c]),
               "UnsupportedChannelCount", "bits")

CheckBits(c) ==
    CheckParam(c, "bits", "bits", BitsUnsupported(BitsPerSample[c]), "UnsupportedBitDepth", "create")

\* lines 74-86: NewObject<USoundWave>, which yields an object, and the
\* properties set from the locals
ConfigureSoundWave(c) ==
    /\ pc[c] = "create"
    /\ SoundWave' = [SoundWave EXCEPT ![c] =
          [made |-> TRUE,
           SampleRate |-> SampleRate[c],
           NumChannels |-> NumChannels[c],
           DurationBytes |-> DataSize[c],
           DurationRate |-> MulInt32(MulInt32(SampleRate[c], NumChannels[c]), BytesPerSample),
           RawPCMDataSize |-> DataSize[c],
           allocated |-> FALSE,
           RawPCMData |-> <<>>]]
    /\ Goto(c, "copysize")
    /\ UNCHANGED <<outside, Base64String, WavData, locals, ret, error, oob, checks>>

\* WavData.Num() - DataOffset
AvailableBytes(Num, Off) == SubInt32(Num, Off)

\* EffectiveSize that trusts the size the header declares
EffectiveSizeDeclared(Size, AudioDataSize) == Size

\* if (AudioDataSize != DataSize) DataSize = FMath::Min(DataSize, AudioDataSize);
EffectiveSize(Size, AudioDataSize) ==
    IF AudioDataSize # Size
    THEN (IF Size < AudioDataSize THEN Size ELSE AudioDataSize)
    ELSE Size

\* lines 90-98
ComputeCopySize(c) ==
    /\ pc[c] = "copysize"
    /\ DataSize' = [DataSize EXCEPT ![c] =
          EffectiveSize(@, AvailableBytes(Len(WavData[c]), DataOffset[c]))]
    /\ Goto(c, "alloc")
    /\ UNCHANGED <<outside, Base64String, WavData, SampleRate, NumChannels, BitsPerSample,
                   DataOffset, Offset, SoundWave, ret, error, oob, checks>>

\* FMemory::Malloc(Count) of an int32 Count: a negative Count converts to a
\* SIZE_T above 2^63, which no heap supplies; a request of Count >= 0
\* bytes, never more than the call already holds in WavData, is met
MallocSucceeds(Count) == Count >= 0

\* lines 101-106.  A request that cannot be met returns nullptr, or the
\* allocator's out-of-memory handler stops the process
Allocate(c) ==
    /\ pc[c] = "alloc"
    /\ Checked(c, "alloc")
    /\ IF MallocSucceeds(DataSize[c])
       THEN /\ SoundWave' = [SoundWave EXCEPT ![c].allocated = TRUE]
            /\ Goto(c, "copy")
            /\ UNCHANGED <<ret, error>>
       ELSE /\ \/ Fail(c, "AllocationFailed")
               \/ Goto(c, "done") /\ ret' = [ret EXCEPT ![c] = "crash"] /\ UNCHANGED error
            /\ UNCHANGED SoundWave
    /\ UNCHANGED <<outside, Base64String, WavData, locals, oob>>

\* the indices  Memcpy(..., WavData.GetData() + DataOffset, DataSize)  reads
CopyReads(Off, Size) == { AddInt32(Off, i) : i \in 0..(Size - 1) }

\* CopiedBytes starting one byte late
CopiedBytesShifted(Data, Off, Size, g) == [i \in 1..Size |-> ByteAt(Data, AddInt32(Off, i), g)]

\* the bytes it writes
CopiedBytes(Data, Off, Size, g) == [i \in 1..Size |-> ByteAt(Data, AddInt32(Off, i - 1), g)]

\* lines 108-117: the copy, and  return SoundWave;
CopyPcm(c) ==
    /\ pc[c] = "copy"
    /\ LET idxs == CopyReads(DataOffset[c], DataSize[c])
       IN  /\ Touch(c, idxs)
           /\ \E g \in Garbage(c, idxs) :
                SoundWave' = [SoundWave EXCEPT ![c].RawPCMData =
                                 CopiedBytes(WavData[c], DataOffset[c], DataSize[c], g)]
    /\ Goto(c, "done")
    /\ ret' = [ret EXCEPT ![c] = "SoundWave"]
    /\ UNCHANGED <<outside, Base64String, WavData, locals, error, checks>>

(***************************************************************************)
(* An access outside the array that stops the process: the range check of  *)
(* TArray::operator[], or a fault on memory that is not mapped.            *)
(***************************************************************************)
\* the indices the statement a call is at accesses
StepReads(c) ==
    LET Data == WavData[c]
    IN  CASE pc[c] = "riff" -> MagicReads(Data, 0, RiffMagic)
          [] pc[c] = "wave" -> MagicReads(Data, 8, WaveMagic)
          [] pc[c] = "fmt" -> MagicReads(Data, 12, FmtMagic)
          [] pc[c] = "fmtsize" -> ReadInt32Reads(Data, 16)
          [] pc[c] = "format" -> ReadInt16Reads(Data, 20)
          [] pc[c] = "params" -> ReadInt16Reads(Data, 22) \cup ReadInt32Reads(Data, 24)
                                    \cup ReadInt16Reads(Data, 34)
          [] pc[c] = "scan" -> IF TRUE \in LoopContinues(Offset[c], Len(Data))
                               THEN ScanReads(Data, Offset[c]) ELSE {}
          [] pc[c] = "copy" -> CopyReads(DataOffset[c], DataSize[c])
          [] OTHER -> {}

RangeCheckStops(c) ==
    /\ ~AllIn(WavData[c], StepReads(c))
    /\ oob' = [oob EXCEPT ![c] = @ + 1]
    /\ Goto(c, "done")
    /\ ret' = [ret EXCEPT ![c] = "crash"]
    /\ UNCHANGED <<outside, Base64String, WavData, locals, SoundWave, error, checks>>

(***************************************************************************)
(* The specification of one call.                                          *)
(***************************************************************************)
Step(c) ==
    \/ CheckEmpty(c)
    \/ DecodeBase64(c)
    \/ CheckSize(c)
    \/ CheckRiff(c)
    \/ CheckWave(c)
    \/ CheckFmt(c)
    \/ CheckFmtSize(c)
    \/ CheckFormat(c)
    \/ ReadParams(c)
    \/ ScanChunk(c)
    \/ ScanExhausted(c)
    \/ CheckSampleRate(c)
    \/ CheckChannels(c)
    \/ CheckBits(c)
    \/ ConfigureSoundWave(c)
    \/ ComputeCopySize(c)
    \/ Allocate(c)
    \/ CopyPcm(c)
    \/ RangeCheckStops(c)

Next == \E c \in Calls : Step(c)

Spec == Init /\ [][Next]_vars

\* a call that can take a step takes it: nothing in the function waits
SpecLive == Spec /\ WF_vars(Next)

(***************************************************************************)
(* Two calls, one after the other, on two files that differ in one         *)
(* respect: chunks between fmt and data, or the RIFF size field.           *)
(***************************************************************************)
\* f with its bytes [4..8) replaced by the bytes of r
WithRiffSize(f, r) == SubSeq(f, 1, 4) \o ToLE32(r) \o SubSeq(f, 9, Len(f))

\* a well-formed file with chunks before its data chunk, and without them
SkipPairs ==
    { <<WavFile(p[1], p[2], RequiredBits, extras, Len(pcm), pcm),
        WavFile(p[1], p[2], RequiredBits, <<>>, Len(pcm), pcm)>> :
        p \in { <<1, 16000>>, <<2, 44100>> },
        extras \in SizedSeqs \ { <<>> }, pcm \in PcmSeqs }

\* RIFF size fields: all ones, and the four bytes "data"
OtherRiffSizes == { -1, FromLE32(100, 97, 116, 97) }

RiffSizeFiles ==
    { FixedHeader(riff, 36, wave, fmt, MinFmtChunkSize, PcmFormatTag, 1, 16000, 16)
        \o Flatten(extras) \o Chunk(id, Len(LongPcm), LongPcm) :
        riff \in {RiffMagic}, wave \in Variants(WaveMagic), fmt \in {FmtMagic},
        extras \in SizedSeqs \cup { <<BackToRiffSize>>, <<BeforeArray>> },
        id \in {DataMagic} \cup NotDataIds }

\* a file, and the same file with another RIFF size field
RiffSizePairs ==
    { <<f, WithRiffSize(f, r)>> : f \in RiffSizeFiles, r \in OtherRiffSizes }

PairInputs ==
    { <<Base64Encode(p[1]), Base64Encode(p[2])>> : p \in SkipPairs \cup RiffSizePairs }

InitPair ==
    /\ NoComponent
    /\ \E p \in PairInputs : Base64String = [c \in Calls |-> p[c]]
    /\ pc = [c \in Calls |-> IF c = 1 THEN "start" ELSE "waiting"]
    /\ InitLocals
    /\ reader = NoRead

\* the second call is made when the first has returned
MakeNextCall(c) ==
    /\ pc[c] = "waiting"
    /\ \A d \in Calls : d < c => pc[d] = "done"
    /\ Goto(c, "start")
    /\ UNCHANGED <<outside, Base64String, WavData, locals, SoundWave, ret, error, oob, checks>>

NextPair == \E c \in Calls : Step(c) \/ MakeNextCall(c)

SpecPair == InitPair /\ [][NextPair]_vars

(***************************************************************************)
(* Two calls on different inputs at the same time (the function is static  *)
(* and BlueprintCallable; nothing in it waits for another call): their     *)
(* statements interleave in any order.                                     *)
(***************************************************************************)
BothFiles ==
    { CanonicalWav(1, 16000, LongPcm),
      WavFile(2, 44100, RequiredBits, <<ListChunk>>, Len(PcmHigh(2)), PcmHigh(2)),
      WavFile(1, 16000, RequiredBits, <<>>, Len(LongPcm) + 4, LongPcm),
      WavFile(1, 96000, 24, <<>>, Len(LongPcm), LongPcm),
      WavFile(1, 16000, RequiredBits, <<BeforeArray>>, Len(LongPcm), LongPcm),
      FixedHeader(RiffMagic, 36, WaveMagic, FmtMagic, MinFmtChunkSize, PcmFormatTag, 1, 16000, 16)
          \o ListChunk \o Chunk(JunkId, 0, <<>>),
      SubSeq(CanonicalWav(1, 16000, LongPcm), 1, MinWavSize - 1) }

BothInputs ==
    { Base64Encode(f) : f \in BothFiles } \cup { <<BadChar>> }

InitBoth ==
    /\ NoComponent
    /\ \E s \in BothInputs : \E t \in BothInputs \ {s} :
          Base64String = [c \in Calls |-> IF c = 1 THEN s ELSE t]
    /\ pc = [c \in Calls |-> "start"]
    /\ InitLocals
    /\ reader = NoRead

SpecBoth == InitBoth /\ [][Next]_vars

(***************************************************************************)
(* UVRSecretaryComponent: the handler bound to the gateway request.  The   *)
(* three copies of the plugin are                                          *)
(*   "VRSecretary"  engine-plugins/unreal/VRSecretary                      *)
(*   "Sample"       samples/VRSecretaryGame/Plugins/VRSecretary            *)
(*   "Legacy"       engine-plugins/unreal/Source/VRSecretary               *)
(* The content of a response says whether it is the text of a JSON object  *)
(* and holds the fields the handlers look up; a field is <<"absent">>,     *)
(* <<"null">> or <<"string", text>>, and choices is also <<"array">> (no   *)
(* element) or <<"array", first element>>.                                 *)
(***************************************************************************)
Copies == {"VRSecretary", "Sample", "Legacy"}

\* the body of a response: text that is no JSON object, or an object
NotJson ==
    [object |-> FALSE, assistant_text |-> <<"absent">>, audio_wav_base64 |-> <<"absent">>,
     choices |-> <<"absent">>]
FieldValues == { <<"absent">>, <<"null">>, <<"string", "">>, <<"string", "text">> }
JsonObjects ==
    [object : {TRUE}, assistant_text : FieldValues, audio_wav_base64 : FieldValues,
     choices : {<<"absent">>}]

\* the reply of an OpenAI-style endpoint: choices[0].message.content
MessageValues ==
    { <<"absent">>, <<"null">>, <<"string", "text">> } \cup { <<"object", c>> : c \in FieldValues }
ChoiceValues == { <<"null">>, <<"string", "text">> } \cup { <<"object", m>> : m \in MessageValues }
ChoicesValues ==
    { <<"absent">>, <<"null">>, <<"string", "text">>, <<"array">> }
        \cup { <<"array", first>> : first \in ChoiceValues }
ChatObjects ==
    [object : {TRUE}, assistant_text : {<<"absent">>}, audio_wav_base64 : {<<"absent">>},
     choices : ChoicesValues]

Contents == {NotJson} \cup JsonObjects \cup ChatObjects

\* the requests that end with a completion, by the handler bound to them
RequestKinds == {"Gateway", "DirectOllama"}

StatusCodes == {200, 204, 404, 500}

\* what OnProcessRequestComplete delivers: bWasSuccessful, whether the
\* response pointer is valid, and the response's code and content
Completions ==
    [request : RequestKinds, bWasSuccessful : BOOLEAN, valid : BOOLEAN, code : StatusCodes,
     content : Contents, delivered : {FALSE}]

\* EHttpResponseCodes::IsOk: the codes 200 (Ok) to 206 (PartialContent)
IsOk(code) == 200 <= code /\ code <= 206

\* FJsonSerializer::Deserialize(Reader, JsonObject) && JsonObject.IsValid()
Deserializes(content) == content.object

\* FJsonObject::TryGetStringField: whether the field is there with a string
\* value, and the value of the out parameter afterwards (an FString that
\* was empty before the call)
TryGetStringField(json, name) ==
    IF json[name][1] = "string"
    THEN [found |-> TRUE, value |-> json[name][2]]
    ELSE [found |-> FALSE, value |-> ""]

\* OnError.Broadcast(message)
ErrorEvent(message) == [event |-> "OnError", text |-> message, audio |-> ""]

\* OnAssistantResponse.Broadcast(AssistantText, AudioBase64); the delegate
\* of the legacy copy is named OnResponse
ResponseEvent(name, AssistantText, AudioBase64) ==
    [event |-> name, text |-> AssistantText, audio |-> AudioBase64]

\* what the three handlers do first: the transport, the status code and the
\* JSON text; <<>> when the response passes
ResponseErrors(r, failed, http, parse) ==
    IF ~r.bWasSuccessful \/ ~r.valid THEN <<ErrorEvent(failed)>>
    ELSE IF ~IsOk(r.code) THEN <<ErrorEvent(http)>>
    ELSE IF ~Deserializes(r.content) THEN <<ErrorEvent(parse)>>
    ELSE <<>>

\* engine-plugins/unreal/VRSecretary: neither field is required
GatewayResponseEvents(r) ==
    LET errors == ResponseErrors(r, "Gateway request failed", "Gateway HTTP",
                                 "Failed to parse gateway JSON response")
    IN  IF errors # <<>> THEN errors
        ELSE <<ResponseEvent("OnAssistantResponse",
                             TryGetStringField(r.content, "assistant_text").value,
                             TryGetStringField(r.content, "audio_wav_base64").value)>>

\* samples/VRSecretaryGame/Plugins/VRSecretary: assistant_text is required
SampleResponseEvents(r) ==
    LET errors == ResponseErrors(r, "Gateway request failed or no response received.",
                                 "Gateway HTTP error", "Failed to parse gateway JSON response.")
    IN  IF errors # <<>> THEN errors
        ELSE IF ~TryGetStringField(r.content, "assistant_text").found
        THEN <<ErrorEvent("Gateway JSON did not contain 'assistant_text'.")>>
        ELSE <<ResponseEvent("OnAssistantResponse",
                             TryGetStringField(r.content, "assistant_text").value,
                             TryGetStringField(r.content, "audio_wav_base64").value)>>

\* engine-plugins/unreal/Source/VRSecretary: both fields are required
HttpResponseEvents(r) ==
    LET errors == ResponseErrors(r, "HTTP request failed", "Gateway HTTP error",
                                 "Failed to parse JSON response")
    IN  IF errors # <<>> THEN errors
        ELSE IF \/ ~TryGetStringField(r.content, "assistant_text").found
                \/ ~TryGetStringField(r.content, "audio_wav_base64").found
        THEN <<ErrorEvent("Missing fields in JSON response")>>
        ELSE <<ResponseEvent("OnResponse",
                             TryGetStringField(r.content, "assistant_text").value,
                             TryGetStringField(r.content, "audio_wav_base64").value)>>

\* FJsonValue::AsObject and FJsonObject::GetObjectField on a value that is
\* no object: the pointer they return is null or points to an empty
\* object, by the version of the engine
EmptyObjects == { <<"invalid">>, <<"object", <<"absent">>>> }

\* FJsonObject::TryGetArrayField(TEXT("choices"), Choices) && Choices &&
\* Choices->Num() != 0
HasFirstChoice(json) == json.choices[1] = "array" /\ Len(json.choices) = 2

\* (*Choices)[0]->AsObject(), <<"object", message field>> or <<"invalid">>
FirstChoice(json, empty) ==
    IF json.choices[2][1] = "object" THEN json.choices[2] ELSE empty

\* the string field content of the message object
MessageContent(message) ==
    TryGetStringField([content |-> message[2]], "content")

\* engine-plugins/unreal/VRSecretary, HandleDirectOllamaResponse: message
\* has to be an object, its content is optional
OllamaEventsNoReturn(r, empty) ==
    LET errors == ResponseErrors(r, "Direct Ollama request failed", "Direct Ollama HTTP",
                                 "Failed to parse Ollama JSON response")
    IN  IF errors # <<>> THEN errors
        ELSE IF ~HasFirstChoice(r.content) THEN <<ErrorEvent("Ollama response missing choices")>>
        ELSE IF FirstChoice(r.content, empty)[1] # "object"
        THEN <<ErrorEvent("Ollama response missing first choice object")>>
        ELSE LET message == FirstChoice(r.content, empty)[2]
             IN  IF message[1] # "object"
                 THEN <<ErrorEvent("Ollama response missing message object"),
                        ResponseEvent("OnAssistantResponse", "", "")>>
                 ELSE <<ResponseEvent("OnAssistantResponse", MessageContent(message).value, "")>>

OllamaResponseEvents(r, empty) ==
    LET errors == ResponseErrors(r, "Direct Ollama request failed", "Direct Ollama HTTP",
                                 "Failed to parse Ollama JSON response")
    IN  IF errors # <<>> THEN errors
        ELSE IF ~HasFirstChoice(r.content) THEN <<ErrorEvent("Ollama response missing choices")>>
        ELSE IF FirstChoice(r.content, empty)[1] # "object"
        THEN <<ErrorEvent("Ollama response missing first choice object")>>
        ELSE LET message == FirstChoice(r.content, empty)[2]
             IN  IF message[1] # "object"
                 THEN <<ErrorEvent("Ollama response missing message object")>>
                 ELSE <<ResponseEvent("OnAssistantResponse", MessageContent(message).value, "")>>

\* samples/VRSecretaryGame/Plugins/VRSecretary, HandleDirectOllamaResponse:
\* ChoiceObj->GetObjectField(TEXT("message")) when the field is there, and
\* the content of the message is required
SampleOllamaEvents(r, empty) ==
    LET errors == ResponseErrors(r, "DirectOllama request failed or no response received.",
                                 "DirectOllama HTTP error",
                                 "Failed to parse DirectOllama JSON response.")
    IN  IF errors # <<>> THEN errors
        ELSE IF ~HasFirstChoice(r.content)
        THEN <<ErrorEvent("DirectOllama JSON did not contain 'choices[0]'.")>>
        ELSE IF FirstChoice(r.content, empty)[1] # "object"
        THEN <<ErrorEvent("DirectOllama choices[0] was not an object.")>>
        ELSE LET field == FirstChoice(r.content, empty)[2]
                 MessageObj == IF field[1] = "absent" THEN <<"invalid">>
                               ELSE IF field[1] = "object" THEN field
                               ELSE empty
             IN  IF MessageObj[1] # "object"
                 THEN <<ErrorEvent("DirectOllama choices[0] did not contain 'message'.")>>
                 ELSE IF ~MessageContent(MessageObj).found
                 THEN <<ErrorEvent("DirectOllama message did not contain 'content'.")>>
                 ELSE <<ResponseEvent("OnAssistantResponse", MessageContent(MessageObj).value, "")>>

\* the handler of the copy `copy` bound to the request runs on the
\* completion
Handle(copy, request, events) ==
    /\ Copy = copy
    /\ Completion.request = request
    /\ ~Completion.delivered
    /\ Broadcasts' = Broadcasts \o events
    /\ Completion' = [Completion EXCEPT !.delivered = TRUE]
    /\ UNCHANGED <<Copy, reader, actor, pc, Base64String, WavData, locals, SoundWave, ret,
                   error, oob, checks>>

HandleGatewayResponse == Handle("VRSecretary", "Gateway", GatewayResponseEvents(Completion))

HandleGatewayResponseSample == Handle("Sample", "Gateway", SampleResponseEvents(Completion))

HandleHttpResponse == Handle("Legacy", "Gateway", HttpResponseEvents(Completion))

HandleDirectOllamaResponse ==
    \E empty \in EmptyObjects :
        Handle("VRSecretary", "DirectOllama", OllamaResponseEvents(Completion, empty))

HandleDirectOllamaResponseSample ==
    \E empty \in EmptyObjects :
        Handle("Sample", "DirectOllama", SampleOllamaEvents(Completion, empty))

\* a gateway request of one of the copies ends with any completion; the
\* decoder is not called
InitGateway ==
    /\ Copy \in Copies
    /\ Completion \in Completions
    /\ Copy = "Legacy" => Completion.request = "Gateway"
    /\ Broadcasts = <<>>
    /\ NoActor
    /\ Base64String = [c \in Calls |-> <<>>]
    /\ pc = [c \in Calls |-> "idle"]
    /\ InitLocals
    /\ reader = NoRead

NextGateway ==
    \/ HandleGatewayResponse
    \/ HandleGatewayResponseSample
    \/ HandleHttpResponse
    \/ HandleDirectOllamaResponse
    \/ HandleDirectOllamaResponseSample

SpecGateway == InitGateway /\ [][NextGateway]_vars

(***************************************************************************)
(* UVRSecretaryComponent: BeginPlay and SendUserText.  A request is        *)
(* recorded with the function SendUserText dispatched to (via), the        *)
(* transport that took it (url) and the session_id field of its body,      *)
(* <<"absent">> when the body has none.                                    *)
(***************************************************************************)
MaxSends == 2

\* EVRSecretaryBackendMode, and EAIBackendMode of the legacy copy
BackendModes == {"GatewayOllama", "GatewayWatsonx", "DirectOllama", "LocalLlamaCpp"}
LegacyBackendModes == {"GatewayOllama", "GatewayWatsonx", "LocalLlamaCpp"}

UserTexts == {"", "hello"}

\* FGuid::NewGuid().ToString(...): the n-th identifier, each one new
NewGuid(n) == <<"guid-1", "guid-2", "guid-3", "guid-4">>[n]

\* if (SessionId.IsEmpty()) SessionId = FGuid::NewGuid().ToString(...);
EnsureSessionId ==
    IF SessionId = ""
    THEN SessionId' = NewGuid(Guids + 1) /\ Guids' = Guids + 1
    ELSE UNCHANGED <<SessionId, Guids>>

\* the request SendViaGateway builds, with the SessionId of that moment
GatewayRequest(via, id) ==
    [via |-> via, url |-> "api/vr_chat", session_id |-> <<"string", id>>]

\* the request SendViaDirectOllama builds
DirectOllamaRequest ==
    [via |-> "SendViaDirectOllama", url |-> "v1/chat/completions", session_id |-> <<"absent">>]

\* LlamaComponent->InsertTemplatedPromptStruct(Prompt)
LlamaPrompt ==
    [via |-> "SendViaLocalLlamaCpp", url |-> "LlamaComponent", session_id |-> <<"absent">>]

\* the switch of SendUserText
SendVia(Mode) ==
    CASE Mode \in {"GatewayOllama", "GatewayWatsonx"} -> "SendViaGateway"
      [] Mode = "DirectOllama" -> "SendViaDirectOllama"
      [] Mode = "LocalLlamaCpp" -> "SendViaLocalLlamaCpp"

\* engine-plugins/unreal/VRSecretary: the mode SendUserText switches on
EffectiveMode ==
    IF BackendModeOverride # "GatewayOllama" THEN BackendModeOverride ELSE Settings.BackendMode

\* samples/VRSecretaryGame/Plugins/VRSecretary
EffectiveModeSample ==
    IF bOverrideBackendMode THEN BackendMode ELSE Settings.BackendMode

\* what the steps of the component leave alone
decoder == <<pc, Base64String, WavData, locals, SoundWave, ret, error, oob, checks>>
fields == <<Settings, BackendModeOverride, bOverrideBackendMode, BackendMode, LlamaComponent,
            GatewayUrl>>

Fails(message) ==
    /\ Broadcasts' = Broadcasts \o <<ErrorEvent(message)>>
    /\ UNCHANGED Requests

Sends(request) ==
    /\ Requests' = Append(Requests, request)
    /\ UNCHANGED Broadcasts

MayCall == Len(Requests) + Len(Broadcasts) < MaxSends

\* engine-plugins/unreal/VRSecretary
BeginPlay ==
    /\ Copy = "VRSecretary"
    /\ EnsureSessionId
    /\ UNCHANGED <<Copy, Completion, Broadcasts, reader, fields, Requests, decoder>>

\* SendViaGateway, and SendViaLocalLlamaCpp which falls back to it
SendUserText ==
    /\ Copy = "VRSecretary"
    /\ MayCall
    /\ \E UserText \in UserTexts :
          IF UserText = ""
          THEN Fails("UserText is empty") /\ UNCHANGED <<SessionId, Guids>>
          ELSE IF ~Settings.valid
          THEN Fails("VRSecretary settings not found") /\ UNCHANGED <<SessionId, Guids>>
          ELSE /\ EnsureSessionId
               /\ LET via == SendVia(EffectiveMode)
                  IN  IF via = "SendViaDirectOllama" THEN Sends(DirectOllamaRequest)
                      ELSE Sends(GatewayRequest(via, SessionId'))
    /\ UNCHANGED <<Copy, Completion, reader, fields, decoder>>

\* samples/VRSecretaryGame/Plugins/VRSecretary
BeginPlaySample ==
    /\ Copy = "Sample"
    /\ EnsureSessionId
    /\ UNCHANGED <<Copy, Completion, Broadcasts, reader, fields, Requests, decoder>>

\* SendViaLocalLlamaCpp falls back to the gateway without a LlamaComponent
SendUserTextSample ==
    /\ Copy = "Sample"
    /\ MayCall
    /\ \E UserText \in UserTexts :
          IF ~Settings.valid
          THEN Fails("VRSecretary settings not found; ensure plugin is enabled correctly.")
          ELSE LET via == SendVia(EffectiveModeSample)
               IN  IF via = "SendViaDirectOllama" THEN Sends(DirectOllamaRequest)
                   ELSE IF via = "SendViaLocalLlamaCpp" /\ LlamaComponent THEN Sends(LlamaPrompt)
                   ELSE Sends(GatewayRequest(via, SessionId))
    /\ UNCHANGED <<Copy, Completion, reader, fields, SessionId, Guids, decoder>>

\* engine-plugins/unreal/Source/VRSecretary
BeginPlayLegacy ==
    /\ Copy = "Legacy"
    /\ EnsureSessionId
    /\ UNCHANGED <<Copy, Completion, Broadcasts, reader, fields, Requests, decoder>>

\* SendUserText and SendRequest_Internal
SendUserTextLegacy ==
    /\ Copy = "Legacy"
    /\ MayCall
    /\ \E UserText \in UserTexts :
          IF UserText = "" THEN Fails("UserText is empty")
          ELSE IF BackendMode = "LocalLlamaCpp"
          THEN Fails("LocalLlamaCpp mode not implemented yet")
          ELSE IF GatewayUrl = "" THEN Fails("GatewayUrl is empty")
          ELSE Sends(GatewayRequest("SendRequest_Internal", SessionId))
    /\ UNCHANGED <<Copy, Completion, reader, fields, SessionId, Guids, decoder>>

\* a component of one of the copies, its fields set in the editor in any
\* way; the functions are called in any order
InitComponent ==
    /\ Copy \in Copies
    /\ Completion = NoCompletion
    /\ Broadcasts = <<>>
    /\ reader = NoRead
    /\ Settings \in {[valid |-> FALSE, BackendMode |-> "GatewayOllama"]}
                        \cup [valid : {TRUE}, BackendMode : BackendModes]
    /\ BackendModeOverride \in BackendModes
    /\ bOverrideBackendMode \in BOOLEAN
    /\ BackendMode \in BackendModes
    /\ LlamaComponent \in BOOLEAN
    /\ GatewayUrl \in {"", "http://localhost:8000"}
    /\ SessionId \in {"", "preset"}
    /\ Copy = "VRSecretary" =>
          /\ ~bOverrideBackendMode /\ BackendMode = "GatewayOllama" /\ ~LlamaComponent
          /\ GatewayUrl # "" /\ SessionId = ""
    /\ Copy = "Sample" =>
          /\ BackendModeOverride = "GatewayOllama" /\ GatewayUrl # "" /\ SessionId = ""
    /\ Copy = "Legacy" =>
          /\ Settings = [valid |-> TRUE, BackendMode |-> "GatewayOllama"]
          /\ BackendModeOverride = "GatewayOllama" /\ ~bOverrideBackendMode
          /\ BackendMode \in LegacyBackendModes /\ ~LlamaComponent
    /\ Guids = 0
    /\ Requests = <<>>
    /\ Base64String = [c \in Calls |-> <<>>]
    /\ pc = [c \in Calls |-> "idle"]
    /\ InitLocals

NextComponent ==
    \/ BeginPlay
    \/ SendUserText
    \/ BeginPlaySample
    \/ SendUserTextSample
    \/ BeginPlayLegacy
    \/ SendUserTextLegacy

SpecComponent == InitComponent /\ [][NextComponent]_vars

(***************************************************************************)
(* ReadInt32 and ReadInt16 called on their own.                            *)
(***************************************************************************)
ReadBuffers == { PcmHigh(n) : n \in 0..5 }

\* offsets in front of, inside and behind the buffers, and at both ends of
\* the int32 range
ReadOffsets ==
    (-5..6) \cup {MinInt32, MinInt32 + 1, MaxInt32 - 4, MaxInt32 - 3, MaxInt32 - 1, MaxInt32}

\* the outcomes of the guard  Offset + n > Data.Num(): when Offset + n
\* leaves the int32 range it is decided on the wrapped sum or as if the sum
\* had not overflowed
GuardOutcomes(Data, at, n) ==
    IF AddOverflows(at, n) THEN BOOLEAN ELSE { at + n > Len(Data) }

\* the call returns `value` having accessed idxs, or the access outside the
\* array stops the process
Reads(idxs, values) ==
    \/ /\ ~AllIn(reader.Data, idxs)
       /\ reader' = [reader EXCEPT !.state = "crash", !.accessed = idxs]
    \/ \E v \in values :
          reader' = [reader EXCEPT !.state = "returned", !.accessed = idxs, !.result = v]

\* the guard holds: return 0;
ReturnsZero == reader' = [reader EXCEPT !.state = "returned", !.result = 0]

\* int32 ReadInt32(const TArray<uint8>& Data, int32 Offset)
CallReadInt32 ==
    /\ reader.fn = "ReadInt32"
    /\ reader.state = "called"
    /\ LET Data == reader.Data
           at == reader.Offset
           idxs == { AddInt32(at, j) : j \in 0..3 }
       IN  \E guarded \in GuardOutcomes(Data, at, 4) :
              IF guarded THEN ReturnsZero
              ELSE Reads(idxs,
                         { FromLE32(ByteAt(Data, at, g), ByteAt(Data, AddInt32(at, 1), g),
                                    ByteAt(Data, AddInt32(at, 2), g),
                                    ByteAt(Data, AddInt32(at, 3), g)) : g \in GarbageWords })
    /\ UNCHANGED <<component, actor, pc, Base64String, WavData, locals, SoundWave, ret,
                   error, oob, checks>>

\* int16 ReadInt16(const TArray<uint8>& Data, int32 Offset)
CallReadInt16 ==
    /\ reader.fn = "ReadInt16"
    /\ reader.state = "called"
    /\ LET Data == reader.Data
           at == reader.Offset
           idxs == { at, AddInt32(at, 1) }
       IN  \E guarded \in GuardOutcomes(Data, at, 2) :
              IF guarded THEN ReturnsZero
              ELSE Reads(idxs,
                         { FromLE16(ByteAt(Data, at, g), ByteAt(Data, AddInt32(at, 1), g)) :
                              g \in GarbageWords })
    /\ UNCHANGED <<component, actor, pc, Base64String, WavData, locals, SoundWave, ret,
                   error, oob, checks>>

InitRead ==
    /\ reader \in [fn : {"ReadInt32", "ReadInt16"}, Data : ReadBuffers, Offset : ReadOffsets,
                   state : {"called"}, accessed : {{}}, result : {0}]
    /\ NoComponent
    /\ Base64String = [c \in Calls |-> <<>>]
    /\ pc = [c \in Calls |-> "idle"]
    /\ InitLocals

NextRead == CallReadInt32 \/ CallReadInt16

SpecRead == InitRead /\ [][NextRead]_vars

(***************************************************************************)
(* Properties.                                                             *)
(***************************************************************************)
Done(c) == pc[c] = "done"

Has(seq, x) == \E i \in DOMAIN seq : seq[i] = x

\* the call returned a USoundWave
Succeeded(c) == Done(c) /\ ret[c] = "SoundWave"

\* the call returned nullptr after logging the error `kind`
Failed(c, kind) == Done(c) /\ ret[c] = "nullptr" /\ error[c] = kind

\* the bytes of b from the C++ index `from` to its end
BytesFrom(b, from) == SubSeq(b, from + 1, Len(b))

\* b is a canonical 44-byte header for 16000 Hz mono, then the N bytes its
\* data chunk declares
IsCanonical16kMono(b) ==
    /\ Len(b) >= 44
    /\ b = CanonicalWav(1, 16000, BytesFrom(b, 44))

\* C1: a canonical 16-bit mono 16000 Hz WAV (44-byte header declaring N
\* data bytes, then exactly N bytes) decodes to a sound wave of sample rate
\* 16000, one channel and exactly the bytes buffer[44 .. 44+N).
C1_CanonicalDecodes ==
    \A c \in Calls :
        (Done(c) /\ IsCanonical16kMono(WavData[c])) =>
            /\ Succeeded(c)
            /\ SoundWave[c].SampleRate = 16000
            /\ SoundWave[c].NumChannels = 1
            /\ SoundWave[c].RawPCMData = BytesFrom(WavData[c], 44)

C1_Witness ==
    \E c \in Calls :
        /\ Succeeded(c)
        /\ IsCanonical16kMono(WavData[c])
        /\ Len(WavData[c]) > 44
        /\ SoundWave[c].RawPCMData = BytesFrom(WavData[c], 44)

\* C2: a well-formed WAV with one or more correctly sized non-data chunks
\* between fmt and data decodes to the same PCM bytes, sample rate and
\* channel count as the same WAV without those chunks (call 1 decodes the
\* file with the chunks, call 2 the file without them).
C2_ChunksSkipped ==
    (Done(1) /\ Done(2) /\ <<WavData[1], WavData[2]>> \in SkipPairs) =>
        /\ Succeeded(1)
        /\ Succeeded(2)
        /\ SoundWave[1].RawPCMData = SoundWave[2].RawPCMData
        /\ SoundWave[1].SampleRate = SoundWave[2].SampleRate
        /\ SoundWave[1].NumChannels = SoundWave[2].NumChannels

C2_Witness ==
    /\ Succeeded(1)
    /\ Succeeded(2)
    /\ <<WavData[1], WavData[2]>> \in SkipPairs
    /\ Len(WavData[1]) >= Len(WavData[2]) + 12
    /\ SoundWave[1].RawPCMData = LongPcm

\* the files whose data chunk declares more bytes than follow it, the size
\* field being the unsigned 32-bit integer of the RIFF format (so -1 is
\* 0xFFFFFFFF), each with the bytes that do follow
TruncatedCases ==
    UNION { { <<WavFile(1, 16000, RequiredBits, extras, d, pcm), pcm>> :
                extras \in { <<>>, <<ListChunk>> },
                d \in { Len(pcm) + 1, Len(pcm) + 4, MaxInt32, -1, MinInt32 } } :
            pcm \in PcmSeqs }

\* C3: a WAV whose data chunk declares more bytes than remain in the buffer
\* still decodes, to exactly the bytes from the data offset to the end of
\* the buffer, and nothing outside the buffer is read.
C3_TruncatedDecodes ==
    \A c \in Calls : \A t \in TruncatedCases :
        (Done(c) /\ WavData[c] = t[1]) =>
            /\ Succeeded(c)
            /\ SoundWave[c].RawPCMData = t[2]
            /\ oob[c] = 0

\* what the encoder started from, with the text it produced
RoundTripCases ==
    { <<Base64Encode(CanonicalWav(ch, rate, pcm)), ch, rate, pcm>> :
        ch \in GoodChannels, rate \in GoodRates, pcm \in PcmSeqs }

\* C4: round trip: PCM bytes wrapped in a canonical 16-bit WAV (sample
\* rate 8000..48000, 1 or 2 channels) and Base64-encoded decode to the
\* same PCM bytes, sample rate and channel count.
C4_RoundTrip ==
    \A c \in Calls : \A t \in RoundTripCases :
        (Done(c) /\ Base64String[c] = t[1]) =>
            /\ Succeeded(c)
            /\ SoundWave[c].NumChannels = t[2]
            /\ SoundWave[c].SampleRate = t[3]
            /\ SoundWave[c].RawPCMData = t[4]

C4_Witness ==
    \E c \in Calls :
        /\ Succeeded(c)
        /\ Base64String[c] = Base64Encode(CanonicalWav(2, 48000, PcmHigh(MaxPcm)))
        /\ SoundWave[c].RawPCMData = PcmHigh(MaxPcm)
        /\ SoundWave[c].SampleRate = 48000

\* C5: every index the parser, ReadInt32, ReadInt16 and the payload copy
\* access lies in [0, len(buffer)), and a call on malformed input ends in a
\* reported failure, never in an out-of-bounds read.
C5_NoOutOfBoundsRead ==
    \A c \in Calls : oob[c] = 0 /\ ret[c] # "crash"

\* C6: when the Base64 text decodes to fewer than 44 bytes, the call fails
\* with TooSmall, returns no object and never enters ParseWavHeader.
C6_TooSmall ==
    \A c \in Calls :
        (Done(c) /\ Has(checks[c], "size") /\ Len(WavData[c]) < 44) =>
            /\ Failed(c, "TooSmall")
            /\ ~Has(checks[c], "riff")
            /\ SoundWave[c] = NoSoundWave

C6_Witness ==
    \E c \in Calls : Failed(c, "TooSmall") /\ Len(WavData[c]) = 43

\* the bytes of b at the C++ indices [from, from + 4)
Four(b, from) == SubSeq(b, from + 1, from + 4)

Int32At(b, at) == FromLE32(b[at + 1], b[at + 2], b[at + 3], b[at + 4])

Int16At(b, at) == FromLE16(b[at + 1], b[at + 2])

\* the call went into ParseWavHeader
Parsed(c) == Has(checks[c], "riff")

\* C7: ParseWavHeader fails unless bytes [0..4) are "RIFF", [8..12) are
\* "WAVE" and [12..16) are "fmt ", the first wrong magic in that order being
\* the one reported, and the RIFF size field, bytes [4..8), never influences
\* the outcome (calls 1 and 2 decode files that differ in those bytes only,
\* and only calls that read nothing outside their buffer are compared).
C7_MagicsOnly ==
    /\ \A c \in Calls :
          (Done(c) /\ Parsed(c)) =>
             /\ Four(WavData[c], 0) # RiffMagic => Failed(c, "BadRiffMagic")
             /\ (Four(WavData[c], 0) = RiffMagic /\ Four(WavData[c], 8) # WaveMagic)
                   => Failed(c, "BadWaveMagic")
             /\ (Four(WavData[c], 0) = RiffMagic /\ Four(WavData[c], 8) = WaveMagic
                   /\ Four(WavData[c], 12) # FmtMagic) => Failed(c, "BadFmtMagic")
    /\ (Done(1) /\ Done(2) /\ Parsed(1) /\ Parsed(2)
          /\ oob[1] = 0 /\ oob[2] = 0
          /\ WavData[2] = WithRiffSize(WavData[1], Int32At(WavData[2], 4))) =>
             /\ ret[1] = ret[2]
             /\ error[1] = error[2]
             /\ SoundWave[1] = SoundWave[2]

\* the fixed header of b passes the three magic checks and the fmt chunk
\* size check
FixedHeaderPasses(b) ==
    /\ Len(b) >= 44
    /\ Four(b, 0) = RiffMagic
    /\ Four(b, 8) = WaveMagic
    /\ Four(b, 12) = FmtMagic
    /\ Int32At(b, 16) >= 16

\* C8: a buffer that passes the magic checks and the fmt chunk size check
\* and whose 16-bit format tag at offset 20 is not 1 fails with
\* UnsupportedFormat, whatever the rest of the buffer holds.
C8_UnsupportedFormat ==
    \A c \in Calls :
        (Done(c) /\ FixedHeaderPasses(WavData[c]) /\ Int16At(WavData[c], 20) # 1) =>
            /\ Failed(c, "UnsupportedFormat")
            /\ ~Has(checks[c], "scan")

C8_Witness ==
    \E c \in Calls :
        /\ Failed(c, "UnsupportedFormat")
        /\ Int16At(WavData[c], 20) = 257
        /\ Four(WavData[c], 36) = DataMagic
        /\ Int32At(WavData[c], 24) = 16000

\* no four consecutive bytes of b are "data"
NoDataId(b) == \A i \in 0..(Len(b) - 4) : Four(b, i) # DataMagic

\* C9: when the scan from offset 36 meets no "data" identifier, the parser
\* fails with DataChunkNotFound once fewer than 8 bytes remain at the scan
\* position, and it never succeeds without having matched "data" (checked
\* on buffers that hold the bytes "data" nowhere).
C9_DataChunkNotFound ==
    \A c \in Calls :
        (Done(c) /\ Has(checks[c], "scan") /\ NoDataId(WavData[c])) =>
            Failed(c, "DataChunkNotFound")

\* C10: once the header parse has succeeded, the call fails with
\* UnsupportedSampleRate exactly when the 32-bit sample rate field at
\* offset 24 is outside 8000..48000.
C10_SampleRateWindow ==
    \A c \in Calls :
        (Done(c) /\ Has(checks[c], "rate")) =>
            (Failed(c, "UnsupportedSampleRate")
                <=> ~(8000 <= Int32At(WavData[c], 24) /\ Int32At(WavData[c], 24) <= 48000))

C10_Witness ==
    \E c \in Calls :
        /\ Failed(c, "UnsupportedSampleRate")
        /\ Int32At(WavData[c], 24) = 48001
        /\ Int16At(WavData[c], 22) = 1
        /\ Int16At(WavData[c], 34) = 16

\* the 16-bit field of b at the C++ index `at`, as the unsigned integer the
\* WAV format stores there
UInt16At(b, at) == b[at + 1] + 256 * b[at + 2]

\* C11: for every structurally valid WAV with a supported sample rate (the
\* call reached the channel check), decoding fails with
\* UnsupportedChannelCount unless the 16-bit channel count field at offset
\* 22 is exactly 1 or 2; 0, 3 and every value up to 65535 are rejected.
C11_ChannelCount ==
    \A c \in Calls :
        (Done(c) /\ Has(checks[c], "channels")) =>
            (Failed(c, "UnsupportedChannelCount") <=> UInt16At(WavData[c], 22) \notin {1, 2})

C11_Witness ==
    \E c \in Calls :
        /\ Failed(c, "UnsupportedChannelCount")
        /\ UInt16At(WavData[c], 22) = 65535
        /\ Int32At(WavData[c], 24) = 16000
        /\ UInt16At(WavData[c], 34) = 16

\* C12: for every structurally valid WAV with supported sample rate and
\* channel count (the call reached the bit depth check), decoding fails
\* with UnsupportedBitDepth unless the 16-bit bits-per-sample field at
\* offset 34 is exactly 16; 8, 24 and 32 are rejected and no sound wave is
\* made of them.
C12_BitDepth ==
    \A c \in Calls :
        (Done(c) /\ Has(checks[c], "bits")) =>
            /\ Failed(c, "UnsupportedBitDepth") <=> UInt16At(WavData[c], 34) # 16
            /\ UInt16At(WavData[c], 34) # 16 => SoundWave[c] = NoSoundWave

C12_Witness ==
    \E c \in Calls :
        /\ Failed(c, "UnsupportedBitDepth")
        /\ UInt16At(WavData[c], 34) = 24
        /\ UInt16At(WavData[c], 22) = 2
        /\ Four(WavData[c], 36) = DataMagic

\* C13: a call with an empty string fails with EmptyInput, returns no
\* object, and the Base64 decode step is never reached.
C13_EmptyInput ==
    \A c \in Calls :
        (Done(c) /\ Len(Base64String[c]) = 0) =>
            /\ Failed(c, "EmptyInput")
            /\ checks[c] = <<"empty">>
            /\ WavData[c] = <<>>
            /\ SoundWave[c] = NoSoundWave

C13_Witness ==
    \E c \in Calls : Failed(c, "EmptyInput") /\ Len(Base64String[c]) = 0

\* the 32-bit field of b at the C++ index `at`, read as the unsigned
\* integer the RIFF format stores there, is less than n (n at most 256)
UInt32Below(b, at, n) ==
    b[at + 1] < n /\ b[at + 2] = 0 /\ b[at + 3] = 0 /\ b[at + 4] = 0

\* C14: the fmt chunk size check fails with FmtChunkTooSmall exactly when
\* the little-endian 32-bit value at offset 16 is less than 16; every value
\* of 16 or more over the whole unsigned 32-bit range, values with the top
\* bit set included, passes this step.
C14_FmtChunkSize ==
    \A c \in Calls :
        (Done(c) /\ Has(checks[c], "fmtsize")) =>
            (Failed(c, "FmtChunkTooSmall") <=> UInt32Below(WavData[c], 16, 16))

\* the size the data chunk header in front of DataOffset declares is not
\* the number of bytes that follow it
DeclaredSizeDiffers(c) ==
    /\ DataOffset[c] >= 8
    /\ DataOffset[c] <= Len(WavData[c])
    /\ Int32At(WavData[c], DataOffset[c] - 4) # Len(WavData[c]) - DataOffset[c]

\* C15: when the PCM payload is copied, the copy length L (DataSize) and
\* the data offset satisfy 0 <= L and DataOffset + L <= len(buffer),
\* whatever size the data chunk declares.
C15_CopyWithinBuffer ==
    \A c \in Calls :
        pc[c] = "copy" =>
            /\ 0 <= DataSize[c]
            /\ IF DataOffset[c] >= 0
               THEN DataSize[c] <= Len(WavData[c]) - DataOffset[c]
               ELSE DataOffset[c] + DataSize[c] <= Len(WavData[c])

C15_Witness ==
    \E c \in Calls :
        /\ pc[c] = "copy"
        /\ DeclaredSizeDiffers(c)
        /\ Int32At(WavData[c], DataOffset[c] - 4) = MaxInt32
        /\ DataSize[c] = MaxPcm

\* the completion is a successful transport with an OK status whose body is
\* a JSON object with a string assistant_text
GoodReply(r) ==
    /\ r.bWasSuccessful
    /\ r.valid
    /\ IsOk(r.code)
    /\ r.content.object
    /\ r.content.assistant_text[1] = "string"

\* C16: when a gateway response is successful, has an OK status and parses
\* as JSON containing assistant_text, but audio_wav_base64 is absent or an
\* empty string, the component broadcasts the assistant-response event once
\* with an empty audio string and does not broadcast the error event.
C16_NoAudioIsSuccess ==
    (Completion.delivered /\ Copy \in Copies /\ GoodReply(Completion)
        /\ Completion.content.audio_wav_base64 \in { <<"absent">>, <<"string", "">> }) =>
            /\ Len(Broadcasts) = 1
            /\ Broadcasts[1].event \in {"OnAssistantResponse", "OnResponse"}
            /\ Broadcasts[1].text = Completion.content.assistant_text[2]
            /\ Broadcasts[1].audio = ""

\* everything the model keeps of the call c
CallState(c) ==
    <<pc[c], Base64String[c], WavData[c], SampleRate[c], NumChannels[c], BitsPerSample[c],
      DataOffset[c], DataSize[c], Offset[c], SoundWave[c], ret[c], error[c], oob[c], checks[c]>>

\* every step of a call leaves everything of the other call as it is
OwnStateOnly ==
    \A c \in Calls :
        CallState(c)' # CallState(c) => \A d \in Calls \ {c} : CallState(d)' = CallState(d)

\* C17: two decode calls on different inputs, their steps interleaved in
\* any order, are independent: every step of a call writes only that call's
\* own buffers, locals and output, and reads only bytes of its own input
\* buffer (no index outside the buffer, where the memory of the other call
\* may lie).
C17_CallsIndependent ==
    [][OwnStateOnly /\ \A c \in Calls : oob'[c] = oob[c]]_vars

\* C18: for every buffer of at least 44 bytes that passes the fixed header
\* checks, the data chunk scan terminates: a call that is in the scan loop
\* leaves it after finitely many steps, with "data" matched or with
\* DataChunkNotFound, for every 32-bit chunk size value.
C18_ScanTerminates ==
    \A c \in Calls : (pc[c] = "scan") ~> (pc[c] # "scan")

\* C19: on every successful decode the PCM size recorded in the returned
\* sound wave, RawPCMDataSize, is the number of bytes allocated and copied
\* into RawPCMData, also when the size the header declares differs from the
\* bytes remaining in the buffer.
C19_RecordedSizeIsCopiedSize ==
    \A c \in Calls :
        Succeeded(c) => SoundWave[c].RawPCMDataSize = Len(SoundWave[c].RawPCMData)

\* the checks in the order the decoder applies them, and the failure each
\* one reports
CheckOrder ==
    <<"empty", "base64", "size", "riff", "wave", "fmt", "fmtsize", "format", "scan",
      "rate", "channels", "bits", "alloc">>

FailureOf ==
    [empty |-> "EmptyInput", base64 |-> "Base64DecodeFailed", size |-> "TooSmall",
     riff |-> "BadRiffMagic", wave |-> "BadWaveMagic", fmt |-> "BadFmtMagic",
     fmtsize |-> "FmtChunkTooSmall", format |-> "UnsupportedFormat",
     scan |-> "DataChunkNotFound", rate |-> "UnsupportedSampleRate",
     channels |-> "UnsupportedChannelCount", bits |-> "UnsupportedBitDepth",
     alloc |-> "AllocationFailed"]

IsPrefix(p, q) == Len(p) <= Len(q) /\ p = SubSeq(q, 1, Len(p))

\* where the walk over the chunks of b from the position `at` finds the
\* "data" identifier, -1 if fewer than 8 bytes remain first; chunk sizes
\* are the unsigned 32-bit integers of the RIFF format, so a size with the
\* top bit set leads past the end of b
RECURSIVE DataChunkAt(_, _)
DataChunkAt(b, at) ==
    IF at + 8 > Len(b) THEN -1
    ELSE IF Four(b, at) = DataMagic THEN at
    ELSE LET size == Int32At(b, at + 4)
         IN  IF size < 0 \/ size > Len(b) THEN -1 ELSE DataChunkAt(b, at + 8 + size)

\* the failure of the first check, in CheckOrder, that the input s violates;
\* "none" if it violates none (the allocation of no more bytes than the
\* input holds is taken to succeed)
FirstViolated(s) ==
    IF Len(s) = 0 THEN "EmptyInput"
    ELSE IF ~Base64Valid(s) THEN "Base64DecodeFailed"
    ELSE LET b == Base64Bytes(s)
         IN  IF Len(b) < 44 THEN "TooSmall"
             ELSE IF Four(b, 0) # RiffMagic THEN "BadRiffMagic"
             ELSE IF Four(b, 8) # WaveMagic THEN "BadWaveMagic"
             ELSE IF Four(b, 12) # FmtMagic THEN "BadFmtMagic"
             ELSE IF UInt32Below(b, 16, 16) THEN "FmtChunkTooSmall"
             ELSE IF UInt16At(b, 20) # 1 THEN "UnsupportedFormat"
             ELSE IF DataChunkAt(b, 36) = -1 THEN "DataChunkNotFound"
             ELSE IF ~(8000 <= Int32At(b, 24) /\ Int32At(b, 24) <= 48000)
                  THEN "UnsupportedSampleRate"
             ELSE IF UInt16At(b, 22) \notin {1, 2} THEN "UnsupportedChannelCount"
             ELSE IF UInt16At(b, 34) # 16 THEN "UnsupportedBitDepth"
             ELSE "none"

\* the checks are evaluated in CheckOrder, and a failure is that of the
\* check evaluated last
ChecksInOrder ==
    \A c \in Calls :
        /\ IsPrefix(checks[c], CheckOrder)
        /\ (Done(c) /\ ret[c] = "nullptr") =>
              /\ checks[c] # <<>>
              /\ error[c] = FailureOf[checks[c][Len(checks[c])]]

\* C20: the decoder applies its checks in one fixed order (empty input,
\* Base64 decode, minimum size 44, RIFF, WAVE and fmt magic, fmt chunk size,
\* format tag, data chunk scan, sample rate, channel count, bit depth,
\* allocation); for every input the failure reported is that of the first
\* check in this order that the input violates, and no later check is
\* evaluated after a failure.
C20_FirstViolationReported ==
    /\ ChecksInOrder
    /\ \A c \in Calls :
          Done(c) =>
             IF FirstViolated(Base64String[c]) = "none" THEN Succeeded(c)
             ELSE Failed(c, FirstViolated(Base64String[c]))

\* C21: on every successful decode the duration stored in the returned
\* sound wave is the effective byte size actually copied, min(dataByteSize,
\* availableBytes), divided by sampleRate * channelCount * 2, not the size
\* the header declares; for a truncated WAV it reflects the truncated length.
C21_DurationOfCopiedBytes ==
    \A c \in Calls :
        Succeeded(c) =>
            /\ SoundWave[c].DurationBytes = Len(SoundWave[c].RawPCMData)
            /\ SoundWave[c].DurationRate
                  = SoundWave[c].SampleRate * SoundWave[c].NumChannels * 2

\* the little-endian value of the n bytes of Data at the C++ index `at`,
\* all inside Data
ValueAt(Data, at, n) ==
    IF n = 4 THEN Int32At(Data, at) ELSE Int16At(Data, at)

\* C22: for every buffer and every integer offset (negative offsets and
\* offsets near the 32-bit maximum included) ReadInt32 and ReadInt16 either
\* read only bytes inside [0, len) and return their little-endian value, or
\* return 0 without reading any byte; they never read outside the buffer.
C22_ReadsInsideOrZero ==
    (reader.fn # "none" /\ reader.state # "called") =>
        /\ reader.state = "returned"
        /\ AllIn(reader.Data, reader.accessed)
        /\ IF reader.accessed = {} THEN reader.result = 0
           ELSE reader.result = ValueAt(reader.Data, reader.Offset,
                                        IF reader.fn = "ReadInt32" THEN 4 ELSE 2)

\* the scan position p is inside Data with the 8 bytes of a chunk header
HeaderInside(Data, p) == 0 <= p /\ p <= Len(Data) - 8

\* whether the position m lies in the payload of a chunk the scan skipped
\* on its way from p to m; the walk follows the chunks as the scan does
\* while it stays inside Data
RECURSIVE InSkippedPayload(_, _, _)
InSkippedPayload(Data, p, m) ==
    IF p = m \/ ~HeaderInside(Data, p) THEN FALSE
    ELSE LET size == Int32At(Data, p + 4)
         IN  \/ p + 8 <= m /\ m - (p + 8) < size
             \/ InSkippedPayload(Data, AddInt32(p, AddInt32(8, size)), m)

\* one step of the call c, as C23 describes the scan
ScanAsDescribed(c) ==
    /\ (pc[c] = "params" /\ pc'[c] = "scan") => Offset'[c] = 36
    /\ (pc[c] = "scan" /\ pc'[c] = "scan" /\ HeaderInside(WavData[c], Offset[c])) =>
          Offset'[c] = AddInt32(Offset[c], AddInt32(8, Int32At(WavData[c], Offset[c] + 4)))
    /\ (pc[c] = "scan" /\ pc'[c] = "rate" /\ HeaderInside(WavData[c], Offset[c])) =>
          /\ Four(WavData[c], Offset[c]) = DataMagic
          /\ DataOffset'[c] = Offset[c] + 8
          /\ DataSize'[c] = Int32At(WavData[c], Offset[c] + 4)
          /\ ~InSkippedPayload(WavData[c], 36, Offset[c])

\* C23: the data chunk scan starts at byte offset 36 whatever the fmt chunk
\* size, and examines identifiers only at 36 and at the positions reached
\* by adding 8 + chunkSize of each skipped chunk; "data" inside the payload
\* of a skipped chunk is never taken for the data chunk; on a match the
\* data offset is the matched position + 8 and the data size the 32-bit
\* value at the matched position + 4.
C23_ScanByChunks ==
    [][\A c \in Calls : ScanAsDescribed(c)]_vars

\* the handlers C24 names: HandleGatewayResponse and
\* HandleDirectOllamaResponse of the two current copies of the plugin
NamedHandlers == Copy \in {"VRSecretary", "Sample"}

\* C24: for every HTTP completion delivered to HandleGatewayResponse or
\* HandleDirectOllamaResponse (any transport outcome, status code, JSON
\* validity and field presence) the component broadcasts exactly one event,
\* OnAssistantResponse or OnError: none before the handler ran, one after.
C24_OneBroadcastPerCompletion ==
    NamedHandlers =>
        /\ ~Completion.delivered => Broadcasts = <<>>
        /\ Completion.delivered =>
              /\ Len(Broadcasts) = 1
              /\ Broadcasts[1].event \in {"OnAssistantResponse", "OnError"}

\* a direct reply whose first choice holds no message object went through
\* HandleDirectOllamaResponse of the engine plugin and ended in OnError
C24_Witness ==
    /\ Copy = "VRSecretary"
    /\ Completion.delivered
    /\ Completion.request = "DirectOllama"
    /\ Completion.bWasSuccessful /\ Completion.valid /\ IsOk(Completion.code)
    /\ Completion.content.choices = <<"array", <<"object", <<"string", "text">>>>>>
    /\ Len(Broadcasts) = 1
    /\ Broadcasts[1].event = "OnError"

\* C25: SendUserText dispatches through the project-level backend mode
\* unless the component overrides it, and when the component overrides it
\* the transport invoked is the one of the override mode, for every pair
\* (settings mode, override mode), an override to GatewayOllama while the
\* project setting is DirectOllama or LocalLlamaCpp included.  The engine
\* plugin's component states its mode in BackendModeOverride, the sample's
\* in BackendMode under bOverrideBackendMode.
C25_OverrideDecides ==
    \A i \in DOMAIN Requests :
        /\ Copy = "VRSecretary" => Requests[i].via = SendVia(BackendModeOverride)
        /\ (Copy = "Sample" /\ bOverrideBackendMode) => Requests[i].via = SendVia(BackendMode)
        /\ (Copy = "Sample" /\ ~bOverrideBackendMode) =>
              Requests[i].via = SendVia(Settings.BackendMode)

\* C26: the session id is stable: over any sequence of BeginPlay and
\* SendUserText calls, once SessionId is non-empty it never changes, and
\* every gateway request the component sends carries that same non-empty
\* session id, a SendUserText issued before BeginPlay included.
C26_SessionIdStable ==
    /\ [][SessionId # "" => SessionId' = SessionId]_vars
    /\ [](\A i \in DOMAIN Requests :
            Requests[i].url = "api/vr_chat" =>
                /\ Requests[i].session_id[2] # ""
                /\ Requests[i].session_id[2] = SessionId)

====
